---- MODULE Spec2Model ----
(***************************************************************************)
(* Model of gpstelemetry.c: main() walks the MP4 files named on the        *)
(* command line, every GPMF payload of a file, every block of a payload    *)
(* and every sample of a block, printing one CSV row per GPS sample.       *)
(*                                                                         *)
(* Number representation.  The C doubles are held as exact fractions:      *)
(*   start, finish, step, now, file_start, file_finish : seconds * Den     *)
(*   gpsu.milliseconds, cts                            : millisec * Den    *)
(*   tmpbuffer doubles (GPS5 / GPS9 elements)          : value * Milli     *)
(* Den is a common multiple of every sample count, so (finish-start) /     *)
(* samples is exact.                                                       *)
(***************************************************************************)
EXTENDS Integers, Sequences, FiniteSets, TLC

(* ------------------------------ bounds --------------------------------- *)
MaxFiles == 2
MaxPayloads == 2
MaxSamples == 2
MaxVisited == 3

(* --------------------------- number helpers ---------------------------- *)
RECURSIVE Gcd(_, _)
Gcd(a, b) == IF b = 0 THEN a ELSE Gcd(b, a % b)

RECURSIVE LcmUpTo(_)
LcmUpTo(n) == IF n <= 1 THEN 1 ELSE (LcmUpTo(n - 1) * n) \div Gcd(LcmUpTo(n - 1), n)

Den == LcmUpTo(MaxSamples)
Milli == 1000

\* C conversion double -> int: truncation toward zero of x / d
Trunc(x, d) == IF x >= 0 THEN x \div d ELSE -((-x) \div d)

(* ------------------------------ time.h --------------------------------- *)
\* days between 1970-01-01 and the civil date y-m-d (m in 1..12, any d)
DaysFromCivil(y, m, d) ==
    LET yy  == IF m <= 2 THEN y - 1 ELSE y
        era == yy \div 400
        yoe == yy - era * 400
        mp  == IF m > 2 THEN m - 3 ELSE m + 9
        doy == (153 * mp + 2) \div 5 + d - 1
        doe == yoe * 365 + yoe \div 4 - yoe \div 100 + doy
    IN  era * 146097 + doe - 719468

\* timegm() of a struct tm: tm_year counts from 1900, tm_mon is 0-based and
\* is normalised into the year, the other fields simply add up
timegm(tm) ==
    LET y == tm.tm_year + 1900 + (tm.tm_mon \div 12)
        m == (tm.tm_mon % 12) + 1
    IN  DaysFromCivil(y, m, tm.tm_mday) * 86400
          + tm.tm_hour * 3600 + tm.tm_min * 60 + tm.tm_sec

\* memset(&tm, 0, sizeof(tm))
ZeroTm == [tm_year |-> 0, tm_mon |-> 0, tm_mday |-> 0,
           tm_hour |-> 0, tm_min |-> 0, tm_sec |-> 0]

\* lines 78-80: all-zero tm with tm_year = 100, i.e. day 0 of January 2000
gps9_epoch == timegm([ZeroTm EXCEPT !.tm_year = 100])

(* --------------------------- static tables ----------------------------- *)
column_names == << "file", "cts", "date", "GPS (Lat.) [deg]", "GPS (Long.) [deg]",
                   "GPS (Alt.) [m]", "GPS (2D speed) [m/s]", "GPS (3D speed) [m/s]",
                   "fix", "precision" >>

\* the indexes with precision printed before fix
gps9_indexes_swapped == << 0, 1, 2, 3, 4, 7, 8 >>

\* 0-based element indexes of a GPS9 sample, in output column order
gps9_indexes == << 0, 1, 2, 3, 4, 8, 7 >>

Keys == {"GPSU", "GPSF", "GPSP", "GPS5", "GPS9", "ACCL"}

\* GPMF_ElementsInStruct for the keys the program decodes
ElementsOf(k) == CASE k = "GPS5" -> 5 [] k = "GPS9" -> 9 [] OTHER -> 1

GPMF_OK == "GPMF_OK"
GPMF_ERROR_UNKNOWN_TYPE == "GPMF_ERROR_UNKNOWN_TYPE"
GPMF_ERROR_BAD_STRUCTURE == "GPMF_ERROR_BAD_STRUCTURE"
GPMF_ERROR_MEMORY == "GPMF_ERROR_MEMORY"

\* (int)ret of line 343, with the values of the GPMF_ERROR enumeration
IntOfRet(r) == CASE r = GPMF_OK -> 0
                 [] r = GPMF_ERROR_MEMORY -> 1
                 [] r = GPMF_ERROR_BAD_STRUCTURE -> 2
                 [] r = GPMF_ERROR_UNKNOWN_TYPE -> 9

(* ------------------------- input value domains ------------------------- *)
\* command line: the path of the k-th file argument, as its '/' components
FilePath(k) == << "dir", IF k = 1 THEN "a.mp4" ELSE "b.mp4" >>

\* a GPSU sample: 16 ASCII codes "YYMMDDHHMMSS.fff"
Chr(d) == 48 + d
GpsuStrings ==
    { << Chr(2), Chr(1), Chr(0), Chr(6), Chr(1), Chr(5), Chr(1), Chr(2),
         Chr(3), Chr(4), Chr(5), Chr(6), 46, Chr(7), Chr(8), Chr(9) >>,
      << Chr(2), Chr(1), Chr(1), Chr(2), Chr(3), Chr(1), Chr(2), Chr(3),
         Chr(5), Chr(9), Chr(5), Chr(9), 46, Chr(0), Chr(0), Chr(0) >> }

GpsfValues == {2, 3}
GpspValues == {50, 600}

\* one GPS5 sample: lat, long, alt, 2D speed, 3D speed
Gps5Samples == { << 48858 * Milli, 2294 * Milli, 35 * Milli, 1500, 1600 >> }

\* one GPS9 sample: lat, long, alt, speed2D, speed3D, days, seconds, DOP, fix
\* (secs and dop are given in thousandths: the scaled doubles have fractions)
Gps9Sample(days, secs, dop, fx) ==
    << 48858 * Milli, 2294 * Milli, 35 * Milli, 1500, 1600,
       days * Milli, secs, dop, fx * Milli >>
Gps9Samples == { Gps9Sample(7836, 45296789, 50000, 3),
                 Gps9Sample(7837, 60500, 100500, 2) }

SampleValues(k) == CASE k = "GPSU" -> GpsuStrings
                     [] k = "GPSF" -> GpsfValues
                     [] k = "GPSP" -> GpspValues
                     [] k = "GPS5" -> Gps5Samples
                     [] k = "GPS9" -> Gps9Samples
                     [] OTHER -> {0}

\* the decoded content of a block: one value (GPSU/GPSF/GPSP) or one element
\* vector (GPS5/GPS9) per sample
Buffers(k, n) == [1..n -> SampleValues(k)]

\* GPMF_Repeat: the side channels carry one sample per payload, the position
\* keys several
SampleCounts(k) == IF k \in {"GPS5", "GPS9"} THEN 1..MaxSamples ELSE {1}

\* GetPayloadTime: the intervals [start, finish) of a file are contiguous from
\* local time 0, each a whole number of seconds long
Durations == {1, 2}
Finishes(s) == { s + d * Den : d \in Durations }

\* what fix, precision and gpsu can hold when read before being written
Garbage == { [fix |-> 0, precision |-> 0, gpsu |-> [time |-> 0, milliseconds |-> 0]] }

\* the command lines tried: min_fix, max_precision, print_filename, print_filepath
Options == { << -1,  -1, FALSE, FALSE >>,
             <<  3, 100, TRUE,  FALSE >>,
             <<  3,  -1, FALSE, TRUE  >>,
             << -1, 100, TRUE,  TRUE  >> }

(* ------------------------------- state --------------------------------- *)
VARIABLES
    \* command line after option parsing (lines 63-116)
    argc, first_file_index, min_fix, max_precision, print_filename, print_filepath,
    \* locals of main that live for the whole run
    ret, file_start, use_gps9, argc_index,
    \* locals of the per-file loop body
    mp4handle, payloadres, file_finish, payloads, index,
    \* locals of the per-payload loop body
    start, finish, fix, precision, gpsu, nvisited,
    \* locals of the per-block loop body
    key, samples, elements, tmpbuffer, step, now, ptr, i,
    \* control position of main, and its return value once it has returned
    pc, status,
    \* resources held: sources opened and not closed, live scratch buffer
    open_sources, tmp_allocated,
    \* standard output (kind of the first line, header lines, the last data
    \* row, file and cts of the data row before it) and standard error
    first_line, headers, prevRow, lastRow, stderr,
    \* history: the clock of the same run made without filter thresholds,
    \* the error reported by a collaborator, the
    \* finish time of the last payload visited in the file, and whether a
    \* GPS9 sample was met in this file
    gpsu_nf, reported, last_finish, gps9_in_file

optVars   == << argc, first_file_index, min_fix, max_precision, print_filename, print_filepath >>
fileVars  == << mp4handle, payloadres, file_finish, payloads, index >>
blockVars == << key, samples, elements, tmpbuffer, step, now, ptr, i >>
outVars   == << first_line, headers, prevRow, lastRow >>
carried   == << fix, precision, gpsu, gpsu_nf >>
vars == << optVars, ret, file_start, use_gps9, argc_index, fileVars,
           start, finish, carried, nvisited, blockVars, pc, status,
           open_sources, tmp_allocated, outVars, stderr,
           reported, last_finish, gps9_in_file >>

NoRow == [argc_index |-> 0, cts |-> 0]
NoBuffer == << >>

\* number of option arguments that precede the first file name
OptionCount(pfn, pfp, mf, mp) ==
    (IF pfn THEN 1 ELSE 0) + (IF pfp THEN 1 ELSE 0)
      + (IF mf # -1 THEN 1 ELSE 0) + (IF mp # -1 THEN 1 ELSE 0)

Init ==
    /\ \E o \in Options :
         /\ min_fix = o[1] /\ max_precision = o[2]
         /\ print_filename = o[3] /\ print_filepath = o[4]
    /\ first_file_index = 1 + OptionCount(print_filename, print_filepath, min_fix, max_precision)
    /\ argc \in (first_file_index + 1)..(first_file_index + MaxFiles)
    /\ ret = GPMF_OK
    /\ file_start = 0
    /\ use_gps9 = FALSE
    /\ argc_index = first_file_index
    /\ mp4handle = 0 /\ payloadres = 0 /\ file_finish = 0 /\ payloads = 0 /\ index = 0
    /\ start = 0 /\ finish = 0 /\ fix = 0 /\ precision = 0
    /\ gpsu = [time |-> 0, milliseconds |-> 0]
    /\ gpsu_nf = [time |-> 0, milliseconds |-> 0]
    /\ nvisited = 0
    /\ key = "" /\ samples = 0 /\ elements = 0 /\ tmpbuffer = NoBuffer
    /\ step = 0 /\ now = 0 /\ ptr = 0 /\ i = 0
    /\ pc = "open" /\ status = 0
    /\ open_sources = {} /\ tmp_allocated = FALSE
    /\ first_line = "none" /\ headers = << >> /\ prevRow = NoRow /\ lastRow = NoRow
    /\ stderr = << >>
    /\ reported = "none"
    /\ last_finish = 0
    /\ gps9_in_file = FALSE

(* ------------------------- pure parts of main -------------------------- *)
\* the threshold test on the fix alone
PassesFixOnly(mf, mp, f, p) == mf < 0 \/ f >= mf

\* lines 236-237 and 277-278: the threshold test, -1 meaning "no threshold"
Passes(mf, mp, f, p) == (mf < 0 \/ f >= mf) /\ (mp < 0 \/ p <= mp)

\* lines 263-268 and 302-307: add the step to the clock, carry one second
Advance(g, stp) ==
    LET ms == g.milliseconds + stp * 1000
    IN  IF ms >= 1000 * Den
        THEN [time |-> g.time + 1, milliseconds |-> ms - 1000 * Den]
        ELSE [time |-> g.time, milliseconds |-> ms]

\* lines 215-229: the clock a GPSU string sets
Digit2(s, k) == 10 * (s[k + 1] - 48) + (s[k + 2] - 48)
\* the month taken as it is written, 1-based
GpsuTmOneBasedMonth(s) == [tm_year |-> Digit2(s, 0) + 100,
                           tm_mon  |-> Digit2(s, 2),
                           tm_mday |-> Digit2(s, 4),
                           tm_hour |-> Digit2(s, 6),
                           tm_min  |-> Digit2(s, 8),
                           tm_sec  |-> Digit2(s, 10)]

GpsuTm(s) == [tm_year |-> Digit2(s, 0) + 100,
              tm_mon  |-> Digit2(s, 2) - 1,
              tm_mday |-> Digit2(s, 4),
              tm_hour |-> Digit2(s, 6),
              tm_min  |-> Digit2(s, 8),
              tm_sec  |-> Digit2(s, 10)]
ParseGpsu(s) ==
    [time |-> timegm(GpsuTm(s)),
     milliseconds |-> (100 * (s[14] - 48) + 10 * (s[15] - 48) + (s[16] - 48)) * Den]

\* ptr[k] for the double pointer ptr walking tmpbuffer (ptr counts elements)
PtrAt(buf, elems, p, k) == buf[((p + k) \div elems) + 1][((p + k) % elems) + 1]

\* lines 289-292: the clock a GPS9 sample's day / seconds-of-day fields set
Gps9Seed(p5, p6) ==
    LET sub_secs == IF p6 >= 0 THEN p6 % Milli ELSE -((-p6) % Milli)
    IN  [time |-> gps9_epoch + (Trunc(p5, Milli) + 1) * 86400 + Trunc(p6 - sub_secs, Milli),
         milliseconds |-> sub_secs * Den]

\* the clock advanced only for the samples that pass the filter
Gps5ClockEmittedOnly(mf, mp, f, p, g, stp) ==
    IF Passes(mf, mp, f, p) THEN Advance(g, stp) ELSE g

\* lines 231-269: what one GPS5 sample does to the clock
Gps5Clock(mf, mp, f, p, g, stp) == Advance(g, stp)

\* lines 270-308: what one GPS9 sample does to the clock
Gps9Clock(mf, mp, g, p5, p6, p7, p8, nw, stp) ==
    Advance(IF Passes(mf, mp, Trunc(p8, Milli), Trunc(p7, Milli)) /\ nw = 0
            THEN Gps9Seed(p5, p6) ELSE g, stp)

\* the header printed for every file
PrintsHeaderAlways(first, cur) == TRUE

\* line 137: the header is printed while handling the first file argument
PrintsHeader(first, cur) == first = cur

\* lines 141-144: the header line, as its list of column names
HeaderLine(pfn, pfp) ==
    (IF pfn \/ pfp THEN << column_names[1] >> ELSE << >>)
      \o [c \in 1..(Len(column_names) - 1) |-> column_names[c + 1]]

\* lines 120-123 and 240-243: the identity column of a row
Identity(pfn, pfp, path) ==
    IF pfp THEN path ELSE IF pfn THEN << path[Len(path)] >> ELSE << >>

\* the time base not accumulated
NextFileStartSame(fs, ff) == fs

\* line 340: the time base of the next file
NextFileStart(fs, ff) == fs + ff

\* lines 244-252: the row printed for a GPS5 sample
Gps5Row(ai, id, fs, nw, g, buf, elems, p, f, pr) ==
    [argc_index |-> ai, file |-> id, cts |-> (fs + nw) * 1000,
     time |-> g.time, msec |-> Trunc(g.milliseconds, Den),
     cols |-> [j \in 1..elems |-> PtrAt(buf, elems, p, j - 1)] \o << f * Milli, pr * Milli >>]

\* lines 285-298: the row printed for a GPS9 sample
Gps9Row(ai, id, fs, nw, g, buf, elems, p) ==
    [argc_index |-> ai, file |-> id, cts |-> (fs + nw) * 1000,
     time |-> g.time, msec |-> Trunc(g.milliseconds, Den),
     cols |-> [j \in 1..Len(gps9_indexes) |-> PtrAt(buf, elems, p, gps9_indexes[j])]]

(* ------------------------------ file loop ------------------------------ *)
\* lines 126-132: OpenMP4Source returns 0
OpenFail ==
    /\ pc = "open"
    /\ mp4handle' = 0
    /\ stderr' = Append(stderr, "ERROR: invalid MP4/MOV or no GPMF data")
    /\ reported' = "InvalidContainer"
    /\ status' = -1
    /\ pc' = "exit"
    /\ UNCHANGED << optVars, ret, file_start, use_gps9, argc_index, payloadres,
                    file_finish, payloads, index, start, finish, carried, nvisited,
                    blockVars, open_sources, tmp_allocated, outVars, 
                    last_finish, gps9_in_file >>

\* lines 126-135: the source opens, GetDuration is not positive
OpenBadDuration ==
    /\ pc = "open"
    /\ mp4handle' = argc_index
    /\ open_sources' = open_sources \cup {argc_index}
    /\ status' = -1
    /\ pc' = "exit"
    /\ UNCHANGED << optVars, ret, file_start, use_gps9, argc_index, payloadres,
                    file_finish, payloads, index, start, finish, carried, nvisited,
                    blockVars, tmp_allocated, outVars, stderr, reported, 
                    last_finish, gps9_in_file >>

\* lines 126-152: the source opens with a positive duration
OpenOk ==
    /\ pc = "open"
    /\ mp4handle' = argc_index
    /\ open_sources' = open_sources \cup {argc_index}
    /\ IF PrintsHeader(first_file_index, argc_index)
       THEN /\ headers' = Append(headers, HeaderLine(print_filename, print_filepath))
            /\ first_line' = IF first_line = "none" THEN "header" ELSE first_line
       ELSE UNCHANGED << headers, first_line >>
    /\ payloadres' = 0
    /\ file_finish' = 0
    /\ \E n \in 0..MaxPayloads : payloads' = n
    /\ index' = 0
    /\ pc' = "payload"
    /\ last_finish' = 0
    /\ gps9_in_file' = FALSE
    /\ UNCHANGED << optVars, ret, file_start, use_gps9, argc_index, start, finish,
                    carried, nvisited, blockVars, status, tmp_allocated, prevRow,
                    lastRow, stderr, reported >>

\* lines 327-343: leaving the payload loop with ret = r: the file's resources
\* are released, then an error ends the run with a diagnostic, and otherwise
\* the time base moves on and main goes to the next file or returns
CloseFile(r) ==
    /\ payloadres' = 0
    /\ open_sources' = open_sources \ {mp4handle}
    /\ IF r # GPMF_OK
       THEN /\ stderr' = Append(stderr, IF r = GPMF_ERROR_UNKNOWN_TYPE
                                        THEN "ERROR: Unknown GPMF Type within"
                                        ELSE "ERROR: GPMF data has corruption")
            /\ status' = IntOfRet(r)
            /\ pc' = "exit"
            /\ UNCHANGED << file_start, argc_index >>
       ELSE /\ file_start' = NextFileStart(file_start, file_finish)
            /\ argc_index' = argc_index + 1
            /\ IF argc_index + 1 < argc
               THEN pc' = "open" /\ UNCHANGED status
               ELSE pc' = "exit" /\ status' = IntOfRet(r)
            /\ UNCHANGED stderr

(* ---------------------------- payload loop ----------------------------- *)
\* lines 154 and 327-343: the loop condition fails, every payload was visited
PayloadsDone ==
    /\ pc = "payload"
    /\ index >= payloads
    /\ CloseFile(ret)
    /\ UNCHANGED << optVars, ret, use_gps9, mp4handle, file_finish, payloads, index,
                    start, finish, carried, nvisited, blockVars, tmp_allocated,
                    outVars, reported, last_finish, gps9_in_file >>

\* a NULL payload skipped alone, the loop going on with the next payload
PayloadNullContinues ==
    /\ pc = "payload"
    /\ index < payloads
    /\ index' = index + 1
    /\ UNCHANGED << optVars, ret, file_start, use_gps9, argc_index, mp4handle,
                    payloadres, file_finish, payloads, start, finish, carried,
                    nvisited, blockVars, pc, status, open_sources, tmp_allocated,
                    outVars, stderr, reported, last_finish, gps9_in_file >>

\* lines 156-161 and 327-343: GetPayload returns NULL, the loop is left with
\* ret unchanged
PayloadNull ==
    /\ pc = "payload"
    /\ index < payloads
    /\ CloseFile(ret)
    /\ UNCHANGED << optVars, ret, use_gps9, mp4handle, file_finish, payloads, index,
                    start, finish, carried, nvisited, blockVars, tmp_allocated,
                    outVars, reported, last_finish, gps9_in_file >>

\* lines 156-164 and 327-343: GetPayloadTime fails
PayloadTimeFail ==
    /\ pc = "payload"
    /\ index < payloads
    /\ ret' = GPMF_ERROR_MEMORY
    /\ reported' = "NoTimingData"
    /\ CloseFile(GPMF_ERROR_MEMORY)
    /\ UNCHANGED << optVars, use_gps9, mp4handle, file_finish, payloads, index,
                    start, finish, carried, nvisited, blockVars, tmp_allocated,
                    outVars, last_finish, gps9_in_file >>

\* lines 156-167 and 327-343: GPMF_Init fails
PayloadInitFail ==
    /\ pc = "payload"
    /\ index < payloads
    /\ \E e \in {GPMF_ERROR_UNKNOWN_TYPE, GPMF_ERROR_BAD_STRUCTURE} :
         /\ ret' = e
         /\ reported' = IF e = GPMF_ERROR_UNKNOWN_TYPE THEN "UnknownType" ELSE "CorruptData"
         /\ CloseFile(e)
    /\ UNCHANGED << optVars, use_gps9, mp4handle, file_finish, payloads, index,
                    start, finish, carried, nvisited, blockVars, tmp_allocated,
                    outVars, last_finish, gps9_in_file >>

\* lines 156-180: the payload is fetched, timed and initialised; fix, precision
\* and gpsu are declared without initialiser in the loop body, so each holds
\* either what the previous iteration left in its storage or anything else
PayloadOk ==
    /\ pc = "payload"
    /\ index < payloads
    /\ payloadres' = 1
    /\ ret' = GPMF_OK
    /\ \E f \in Finishes(last_finish) :
         /\ start' = last_finish
         /\ finish' = f
         /\ last_finish' = f
    /\ \/ UNCHANGED << fix, precision, gpsu, gpsu_nf >>
       \/ \E g \in Garbage :
            /\ fix' = g.fix /\ precision' = g.precision
            /\ gpsu' = g.gpsu /\ gpsu_nf' = g.gpsu
    /\ nvisited < MaxVisited
    /\ nvisited' = nvisited + 1
    /\ pc' = "block"
    /\ UNCHANGED << optVars, file_start, use_gps9, argc_index, mp4handle, file_finish,
                    payloads, index, blockVars, status, open_sources, tmp_allocated,
                    outVars, stderr, reported, gps9_in_file >>

(* ----------------------------- block loop ------------------------------ *)
\* lines 320-324: the block's locals go out of scope, then the do/while
\* condition: GPMF_Next finds another block, or the payload is finished
\* (GPMF_ResetState, index++)
EndIterationWithin(limit) ==
    /\ key' = "" /\ samples' = 0 /\ elements' = 0 /\ tmpbuffer' = NoBuffer
    /\ step' = 0 /\ now' = 0 /\ ptr' = 0 /\ i' = 0
    /\ \/ /\ nvisited < limit
          /\ nvisited' = nvisited + 1
          /\ pc' = "block"
          /\ UNCHANGED << index, start, finish >>
       \/ /\ UNCHANGED nvisited
          /\ index' = index + 1
          /\ start' = 0 /\ finish' = 0
          /\ pc' = "payload"

EndIteration == EndIterationWithin(MaxVisited)

\* lines 180-188: the block has no samples or no structure size
BlockEmpty ==
    /\ pc = "block"
    /\ EndIteration
    /\ UNCHANGED << optVars, ret, file_start, use_gps9, argc_index, mp4handle,
                    payloadres, file_finish, payloads, carried, status, open_sources,
                    tmp_allocated, outVars, stderr, reported, last_finish,
                    gps9_in_file >>

\* a failed allocation handled as an error that ends the run
BlockNoMemoryFatal ==
    /\ pc = "block"
    /\ ret' = GPMF_ERROR_MEMORY
    /\ CloseFile(GPMF_ERROR_MEMORY)
    /\ UNCHANGED << optVars, use_gps9, mp4handle, file_finish, payloads, index,
                    start, finish, carried, nvisited, blockVars, tmp_allocated,
                    outVars, reported, last_finish, gps9_in_file >>

\* lines 190-193: malloc returns NULL
BlockNoMemory ==
    /\ pc = "block"
    /\ EndIteration
    /\ UNCHANGED << optVars, ret, file_start, use_gps9, argc_index, mp4handle,
                    payloadres, file_finish, payloads, carried, status, open_sources,
                    tmp_allocated, outVars, stderr, reported, last_finish,
                    gps9_in_file >>

\* lines 195-203 and 320: the key is not one main decodes, res keeps its
\* initial GPMF_ERROR_UNKNOWN_TYPE; the buffer is freed
BlockOtherKey ==
    /\ pc = "block"
    /\ \E k \in Keys \ {"GPSU", "GPSF", "GPSP", "GPS5", "GPS9"} : TRUE
    /\ EndIteration
    /\ UNCHANGED << optVars, ret, file_start, use_gps9, argc_index, mp4handle,
                    payloadres, file_finish, payloads, carried, status, open_sources,
                    tmp_allocated, outVars, stderr, reported, last_finish,
                    gps9_in_file >>

\* lines 195-203 and 320: GPMF_FormattedData / GPMF_ScaledData returns an
\* error; res is not copied to ret; the buffer is freed
BlockDecodeFail ==
    /\ pc = "block"
    /\ \E res \in {GPMF_ERROR_UNKNOWN_TYPE, GPMF_ERROR_BAD_STRUCTURE} :
         reported' = IF res = GPMF_ERROR_UNKNOWN_TYPE THEN "UnknownType" ELSE "CorruptData"
    /\ EndIteration
    /\ UNCHANGED << optVars, ret, file_start, use_gps9, argc_index, mp4handle,
                    payloadres, file_finish, payloads, carried, status, open_sources,
                    tmp_allocated, outVars, stderr, last_finish,
                    gps9_in_file >>

\* lines 180-211: the block of key k decodes into tmpbuffer as the n samples b
BlockDecodedAs(k, n, b) ==
    /\ pc = "block"
    /\ key' = k
    /\ samples' = n
    /\ elements' = ElementsOf(k)
    /\ tmpbuffer' = b
    /\ step' = (finish - start) \div n
    /\ tmp_allocated' = TRUE
    /\ now' = start
    /\ ptr' = 0
    /\ i' = 0
    /\ file_finish' = finish
    /\ pc' = "sample"
    /\ UNCHANGED << optVars, ret, file_start, use_gps9, argc_index, mp4handle,
                    payloadres, payloads, index, start, finish, carried, nvisited,
                    status, open_sources, outVars, stderr, reported, 
                    last_finish, gps9_in_file >>

BlockDecoded ==
    \E k \in {"GPSU", "GPSF", "GPSP", "GPS5", "GPS9"} : \E n \in SampleCounts(k) :
        \E b \in Buffers(k, n) : BlockDecodedAs(k, n, b)

\* lines 211, 320-324: the sample loop is over; free(tmpbuffer)
BlockEndWithin(limit) ==
    /\ pc = "sample"
    /\ i >= samples
    /\ tmp_allocated' = FALSE
    /\ EndIterationWithin(limit)
    /\ UNCHANGED << optVars, ret, file_start, use_gps9, argc_index, mp4handle,
                    payloadres, file_finish, payloads, carried, status, open_sources,
                    outVars, stderr, reported, last_finish, gps9_in_file >>

BlockEnd == BlockEndWithin(MaxVisited)

(* ----------------------------- sample loop ----------------------------- *)
\* a data row goes to standard output
Emit(row) ==
    /\ first_line' = IF first_line = "none" THEN "row" ELSE first_line
    /\ prevRow' = [argc_index |-> lastRow.argc_index, cts |-> lastRow.cts]
    /\ lastRow' = row
    /\ UNCHANGED headers

\* lines 213-230
SampleGPSU ==
    /\ pc = "sample" /\ i < samples /\ key = "GPSU"
    /\ gpsu' = ParseGpsu(tmpbuffer[1])
    /\ gpsu_nf' = ParseGpsu(tmpbuffer[1])
    /\ i' = i + 1
    /\ UNCHANGED << optVars, ret, file_start, use_gps9, argc_index, fileVars, start,
                    finish, fix, precision, nvisited, key, samples, elements,
                    tmpbuffer, step, now, ptr, pc, status, open_sources,
                    tmp_allocated, outVars, stderr, reported, last_finish,
                    gps9_in_file >>

\* lines 231-269
SampleGPS5 ==
    /\ pc = "sample" /\ i < samples /\ key = "GPS5" /\ ~use_gps9
    /\ IF Passes(min_fix, max_precision, fix, precision)
       THEN Emit(Gps5Row(argc_index,
                         Identity(print_filename, print_filepath,
                                  FilePath(argc_index - first_file_index + 1)),
                         file_start, now, gpsu, tmpbuffer, elements, ptr,
                         fix, precision))
       ELSE UNCHANGED outVars
    /\ ptr' = ptr + elements
    /\ now' = now + step
    /\ gpsu' = Gps5Clock(min_fix, max_precision, fix, precision, gpsu, step)
    /\ gpsu_nf' = Gps5Clock(-1, -1, fix, precision, gpsu_nf, step)
    /\ i' = i + 1
    /\ UNCHANGED << optVars, ret, file_start, use_gps9, argc_index, fileVars, start,
                    finish, fix, precision, nvisited, key, samples, elements,
                    tmpbuffer, step, pc, status, open_sources, tmp_allocated,
                    stderr, reported, last_finish, gps9_in_file >>

\* lines 231 and 270-316: a GPS5 sample once use_gps9 is set matches no branch
SampleIgnored ==
    /\ pc = "sample" /\ i < samples /\ key = "GPS5" /\ use_gps9
    /\ i' = i + 1
    /\ UNCHANGED << optVars, ret, file_start, use_gps9, argc_index, fileVars, start,
                    finish, carried, nvisited, key, samples, elements, tmpbuffer,
                    step, now, ptr, pc, status, open_sources, tmp_allocated,
                    outVars, stderr, reported, last_finish, gps9_in_file >>

\* lines 270-308
SampleGPS9 ==
    /\ pc = "sample" /\ i < samples /\ key = "GPS9"
    /\ use_gps9' = TRUE
    /\ gps9_in_file' = TRUE
    /\ LET p5 == PtrAt(tmpbuffer, elements, ptr, 5)
           p6 == PtrAt(tmpbuffer, elements, ptr, 6)
           p7 == PtrAt(tmpbuffer, elements, ptr, 7)
           p8 == PtrAt(tmpbuffer, elements, ptr, 8)
       IN  /\ IF Passes(min_fix, max_precision, Trunc(p8, Milli), Trunc(p7, Milli))
              THEN Emit(Gps9Row(argc_index,
                                Identity(print_filename, print_filepath,
                                         FilePath(argc_index - first_file_index + 1)),
                                file_start, now,
                                IF now = 0 THEN Gps9Seed(p5, p6) ELSE gpsu,
                                tmpbuffer, elements, ptr))
              ELSE UNCHANGED outVars
           /\ gpsu' = Gps9Clock(min_fix, max_precision, gpsu, p5, p6, p7, p8, now, step)
           /\ gpsu_nf' = Gps9Clock(-1, -1, gpsu_nf, p5, p6, p7, p8, now, step)
    /\ ptr' = ptr + elements
    /\ now' = now + step
    /\ i' = i + 1
    /\ UNCHANGED << optVars, ret, file_start, argc_index, fileVars, start, finish,
                    fix, precision, nvisited, key, samples, elements, tmpbuffer, step,
                    pc, status, open_sources, tmp_allocated, stderr, reported,
                    last_finish >>

\* lines 309-312 (the uint32_t values of the model lie below 2^31, where
\* the (int) conversion of line 236 keeps them)
SampleGPSF ==
    /\ pc = "sample" /\ i < samples /\ key = "GPSF"
    /\ fix' = tmpbuffer[1]
    /\ i' = i + 1
    /\ UNCHANGED << optVars, ret, file_start, use_gps9, argc_index, fileVars, start,
                    finish, precision, gpsu, gpsu_nf, nvisited, key, samples,
                    elements, tmpbuffer, step, now, ptr, pc, status, open_sources,
                    tmp_allocated, outVars, stderr, reported, last_finish,
                    gps9_in_file >>

\* lines 313-316
SampleGPSP ==
    /\ pc = "sample" /\ i < samples /\ key = "GPSP"
    /\ precision' = tmpbuffer[1] % 65536
    /\ i' = i + 1
    /\ UNCHANGED << optVars, ret, file_start, use_gps9, argc_index, fileVars, start,
                    finish, fix, gpsu, gpsu_nf, nvisited, key, samples, elements,
                    tmpbuffer, step, now, ptr, pc, status, open_sources,
                    tmp_allocated, outVars, stderr, reported, last_finish,
                    gps9_in_file >>

(* --------------------------- specification ----------------------------- *)
Next ==
    \/ OpenFail \/ OpenBadDuration \/ OpenOk
    \/ PayloadsDone \/ PayloadNull \/ PayloadTimeFail \/ PayloadInitFail \/ PayloadOk
    \/ BlockEmpty \/ BlockNoMemory \/ BlockOtherKey \/ BlockDecodeFail
    \/ BlockDecoded \/ BlockEnd
    \/ SampleGPSU \/ SampleGPS5 \/ SampleIgnored \/ SampleGPS9 \/ SampleGPSF \/ SampleGPSP

Spec == Init /\ [][Next]_vars

(* ----------------------------- scenarios ------------------------------ *)
\* A scenario fixes what the collaborators return, block by block: blocks[n]
\* gives the key of the n-th block visited, the contents the decoder may
\* deliver for it, and whether GPMF_Next finds another block after it in the
\* same payload.  The handlers are those of Spec.
ScriptBlockDecoded(blocks) ==
    /\ pc = "block"
    /\ nvisited <= Len(blocks)
    /\ \E b \in blocks[nvisited].buffers :
         BlockDecodedAs(blocks[nvisited].key, Len(b), b)

ScriptBlockEnd(blocks) ==
    /\ nvisited <= Len(blocks)
    /\ BlockEndWithin(Len(blocks))
    /\ (pc' = "block") <=> blocks[nvisited].more

\* the command line names one file
E2EInit == Init /\ argc = first_file_index + 1

\* End-to-end scenario: one file whose single payload holds two Legacy
\* position samples, each preceded by the fix and precision blocks that carry
\* its values: fix = [3, 3], precision = [50, 600]
E2EBlocks ==
    << [key |-> "GPSF", buffers |-> { << 3 >> },          more |-> TRUE],
       [key |-> "GPSP", buffers |-> { << 50 >> },         more |-> TRUE],
       [key |-> "GPS5", buffers |-> Buffers("GPS5", 1),   more |-> TRUE],
       [key |-> "GPSF", buffers |-> { << 3 >> },          more |-> TRUE],
       [key |-> "GPSP", buffers |-> { << 600 >> },        more |-> TRUE],
       [key |-> "GPS5", buffers |-> Buffers("GPS5", 1),   more |-> FALSE] >>

\* GetNumberPayloads returns 1
E2EOpen == OpenOk /\ payloads' = 1
E2EBlockDecoded == ScriptBlockDecoded(E2EBlocks)
E2EBlockEnd == ScriptBlockEnd(E2EBlocks)

E2ENext ==
    \/ E2EOpen \/ PayloadOk \/ E2EBlockDecoded \/ E2EBlockEnd
    \/ SampleGPSF \/ SampleGPSP \/ SampleGPS5 \/ PayloadsDone

E2ESpec == E2EInit /\ [][E2ENext]_vars

\* Carry scenario: one file of two payloads; the first holds a fix block (3)
\* and a precision block (50), the second a Legacy position block only
CarryBlocks ==
    << [key |-> "GPSF", buffers |-> { << 3 >> },  more |-> TRUE],
       [key |-> "GPSP", buffers |-> { << 50 >> }, more |-> FALSE],
       [key |-> "GPS5", buffers |-> Buffers("GPS5", 1) \cup Buffers("GPS5", 2),
                                                  more |-> FALSE] >>

\* GetNumberPayloads returns 2
CarryOpen == OpenOk /\ payloads' = 2
CarryBlockDecoded == ScriptBlockDecoded(CarryBlocks)
CarryBlockEnd == ScriptBlockEnd(CarryBlocks)

CarryNext ==
    \/ CarryOpen \/ PayloadOk \/ CarryBlockDecoded \/ CarryBlockEnd
    \/ SampleGPSF \/ SampleGPSP \/ SampleGPS5 \/ PayloadsDone

CarrySpec == E2EInit /\ [][CarryNext]_vars

\* Clock-sync scenario: the first block of a file is a GPSU block whose
\* sample is the fixed-width text YYMMDDHHMMSS.fff of a date and time
\* (years up to 2037: the seconds since the epoch stay below 2^31)
GpsuFields ==
    [yy : {0, 21, 37}, mo : {1, 6, 12}, dd : {1, 15, 31},
     hh : {12, 23}, mi : {34, 59}, ss : {56, 59}, fff : {0, 789}]

\* the 16 ASCII codes of the text
FormatGpsu(f) ==
    << Chr(f.yy \div 10), Chr(f.yy % 10), Chr(f.mo \div 10), Chr(f.mo % 10),
       Chr(f.dd \div 10), Chr(f.dd % 10), Chr(f.hh \div 10), Chr(f.hh % 10),
       Chr(f.mi \div 10), Chr(f.mi % 10), Chr(f.ss \div 10), Chr(f.ss % 10),
       46,
       Chr(f.fff \div 100), Chr((f.fff \div 10) % 10), Chr(f.fff % 10) >>

GpsuBlocks ==
    << [key |-> "GPSU", buffers |-> { << FormatGpsu(f) >> : f \in GpsuFields },
        more |-> FALSE] >>

GpsuBlockDecoded == ScriptBlockDecoded(GpsuBlocks)
GpsuBlockEnd == ScriptBlockEnd(GpsuBlocks)

GpsuNext ==
    \/ E2EOpen \/ PayloadOk \/ GpsuBlockDecoded \/ SampleGPSU \/ GpsuBlockEnd
    \/ PayloadsDone

GpsuSpec == E2EInit /\ [][GpsuNext]_vars

\* Allocation scenario: every collaborator succeeds and every block has
\* samples of a key main decodes; only malloc may fail
AllocNext ==
    \/ OpenOk \/ PayloadsDone \/ PayloadOk
    \/ BlockNoMemory \/ BlockDecoded \/ BlockEnd
    \/ SampleGPSU \/ SampleGPS5 \/ SampleIgnored \/ SampleGPS9 \/ SampleGPSF \/ SampleGPSP

AllocSpec == Init /\ [][AllocNext]_vars

(* ------------------------------- claims -------------------------------- *)
\* a sample of a position block has just been handled by the GPS5 branch
AfterLegacySample == pc = "sample" /\ key = "GPS5" /\ ~use_gps9 /\ i > 0
\* a sample of a position block has just been handled by the GPS9 branch
AfterConsolidatedSample == pc = "sample" /\ key = "GPS9" /\ i > 0
NormalisedMillis(g) == 0 <= g.milliseconds /\ g.milliseconds < 1000 * Den

\* C1: after every Legacy (GPS5) position sample the clock equals the clock
\* of the same run made with no filter thresholds, whether the sample was
\* emitted or filtered out.
C1_LegacyClockIgnoresFilter == AfterLegacySample => gpsu = gpsu_nf

\* C1 witness: a GPS5 block whose samples the filter rejected has advanced a
\* clock that a GPSU block had set.
C1_Witness ==
    /\ AfterLegacySample /\ i = samples
    /\ ~Passes(min_fix, max_precision, fix, precision)
    /\ \E u \in GpsuStrings : gpsu.time >= ParseGpsu(u).time /\ gpsu # ParseGpsu(u)
    /\ gpsu = gpsu_nf

\* C2 (as claimed): after every Consolidated (GPS9) position sample,
\* including the one that seeds the clock, the clock equals the clock of the
\* same run made with no filter thresholds.
C2_ConsolidatedClockIgnoresFilter == AfterConsolidatedSample => gpsu = gpsu_nf

\* C3 (as claimed): a position sample that finds fractionMillis in [0,1000)
\* leaves it in [0,1000), whatever the non-negative step size.
C3_MillisStayNormalised ==
    [][ ( /\ pc = "sample" /\ i < samples /\ step >= 0
          /\ (key = "GPS9" \/ (key = "GPS5" /\ ~use_gps9))
          /\ NormalisedMillis(gpsu) )
        => NormalisedMillis(gpsu') ]_vars

\* C4 (as claimed): within one file the cts of consecutive data rows never
\* decreases (the payload intervals of the model are always ordered).
C4_CtsMonotonicInFile ==
    (prevRow.argc_index # 0 /\ lastRow.argc_index = prevRow.argc_index)
        => lastRow.cts >= prevRow.cts

\* C5: the first cts emitted for file N+1 is at least the last cts emitted
\* for file N.
C5_CtsMonotonicAcrossFiles ==
    (prevRow.argc_index # 0 /\ lastRow.argc_index = prevRow.argc_index + 1)
        => lastRow.cts >= prevRow.cts

\* C5 witness: the second file's first row follows a first-file row whose cts
\* is past the start of that file.
C5_Witness ==
    /\ prevRow.argc_index = first_file_index
    /\ lastRow.argc_index = first_file_index + 1
    /\ prevRow.cts > 0
    /\ lastRow.cts >= prevRow.cts

\* C6 (as claimed): closing a file all of whose payloads were visited without
\* error adds the finish time of its last payload to the file time base.
C6_TimeBaseGrowsByLastFinish ==
    [][ (pc = "payload" /\ pc' # "payload" /\ ret = GPMF_OK /\ payloads > 0 /\ index = payloads)
        => file_start' = file_start + last_finish ]_vars

\* C7 (as claimed): no file starts in the Consolidated generation, and a GPS5
\* sample is dispatched exactly when no GPS9 sample was met earlier in the
\* same file.
C7_GenerationIsPerFile ==
    /\ (pc = "open" => ~use_gps9)
    /\ ((pc = "sample" /\ key = "GPS5" /\ i < samples) => (use_gps9 <=> gps9_in_file))

\* C8 (as claimed): as soon as a collaborator has reported an error, main
\* has returned with a non-zero status: no further payload, block or file is
\* processed and no further row is printed.
C8_ReportedErrorIsFatal == reported # "none" => (pc = "exit" /\ status # 0)

\* C9 (as claimed): when main has returned, every source it opened is closed
\* and no scratch buffer is left allocated.
C9_ResourcesReleasedAtExit ==
    pc = "exit" => (open_sources = {} /\ ~tmp_allocated)

\* C10 (as claimed): when main has returned, the header row has been written
\* exactly once, before any data row, with the identity column iff identity
\* printing is on.
C10_HeaderExactlyOnce ==
    pc = "exit" =>
        /\ Len(headers) = 1
        /\ first_line = "header"
        /\ \A h \in 1..Len(headers) :
             (headers[h][1] = column_names[1]) <=> (print_filename \/ print_filepath)

\* C10 (amended): the header row is written at most once, exactly once as
\* soon as the first file has been opened with a positive duration, never
\* after a data row and never again for a later file; no data row is written
\* without it; its first column is the identity column iff print_filename or
\* print_filepath is set.
C10_HeaderOnceBeforeData ==
    /\ Len(headers) <= 1
    /\ first_line # "row"
    /\ (lastRow.argc_index # 0 => Len(headers) = 1)
    /\ ((pc \in {"payload", "block", "sample"} \/ argc_index > first_file_index)
          => Len(headers) = 1)
    /\ \A h \in 1..Len(headers) :
         /\ (headers[h][1] = column_names[1]) <=> (print_filename \/ print_filepath)
         /\ Len(headers[h]) = (IF print_filename \/ print_filepath THEN 10 ELSE 9)

\* C10 witness: a data row of the second file is printed under the single
\* header, which carries the identity column.
C10_Witness ==
    /\ Len(headers) = 1
    /\ lastRow.argc_index = first_file_index + 1
    /\ print_filename
    /\ headers[1][1] = column_names[1]

\* the claimed filter on the sample's own values v8 (fix) and v7 (precision),
\* both in thousandths
ClaimedPasses(mf, mp, v8, v7) == (mf < 0 \/ v8 >= mf * Milli) /\ (mp < 0 \/ v7 <= mp * Milli)
\* the step has appended a data row of the current file to standard output
RowAppended ==
    /\ prevRow' = [argc_index |-> lastRow.argc_index, cts |-> lastRow.cts]
    /\ lastRow'.argc_index = argc_index

\* C11 (as claimed): a dispatched position sample appends a record if and
\* only if passes(fix, precision) holds, on the carried fix / precision for a
\* Legacy sample and on the sample's own elements 8 and 7 for a Consolidated
\* one.
C11_EmittedIffPasses ==
    [][ /\ (pc = "sample" /\ i < samples /\ key = "GPS5" /\ ~use_gps9)
            => IF Passes(min_fix, max_precision, fix, precision)
               THEN RowAppended ELSE UNCHANGED outVars
        /\ (pc = "sample" /\ i < samples /\ key = "GPS9")
            => IF ClaimedPasses(min_fix, max_precision,
                                PtrAt(tmpbuffer, elements, ptr, 8),
                                PtrAt(tmpbuffer, elements, ptr, 7))
               THEN RowAppended ELSE UNCHANGED outVars ]_vars

\* C12: in the end-to-end scenario (one file, one payload over [0,2), two
\* Legacy position samples with fix [3,3] and precision [50,600], min_fix=3,
\* max_precision=100) the run ends with exactly one data row, the one of the
\* first position sample, printed under the single header row.
C12_FirstEmittedSecondDropped ==
    (pc = "exit" /\ min_fix = 3 /\ max_precision = 100 /\ last_finish = 2 * Den)
    => /\ status = 0
       /\ Len(headers) = 1 /\ first_line = "header"
       /\ prevRow = NoRow
       /\ lastRow.argc_index = first_file_index
       /\ lastRow.cts = 0
       /\ \E v \in Gps5Samples : lastRow.cols = v \o << 3 * Milli, 50 * Milli >>

\* C12 witness: the scenario has run to its end with those thresholds; the
\* second position sample was read with precision 600 and only one row exists.
C12_Witness ==
    /\ pc = "exit" /\ min_fix = 3 /\ max_precision = 100 /\ last_finish = 2 * Den
    /\ nvisited = Len(E2EBlocks) /\ fix = 3 /\ precision = 600
    /\ lastRow.argc_index = first_file_index /\ prevRow = NoRow

\* C13 (as claimed): the fix and precision a Legacy position sample is
\* filtered and printed with are those of the most recently decoded fix and
\* precision blocks before it, here the blocks of the previous payload of the
\* file (fix 3, precision 50).
C13_UsesLatestBlocks ==
    (pc = "sample" /\ key = "GPS5" /\ index = 1 /\ i < samples)
    => (fix = 3 /\ precision = 50)

\* C14 (as claimed): the first Consolidated sample of a file, met in its
\* first payload, seeds the clock from its elements 5 and 6 (and the clock
\* is then advanced); every later Consolidated sample of the file only
\* advances the clock.
C14_SeededOncePerFile ==
    [][ (pc = "sample" /\ i < samples /\ key = "GPS9")
        => IF ~gps9_in_file
           THEN index = 0
                => gpsu' = Advance(Gps9Seed(PtrAt(tmpbuffer, elements, ptr, 5),
                                            PtrAt(tmpbuffer, elements, ptr, 6)), step)
           ELSE gpsu' = Advance(gpsu, step) ]_vars

\* C15 (as claimed): the clock persists within a file: starting a further
\* payload of the file, skipping or ending a block, a fix or precision
\* sample and an ignored sample all leave it unchanged.
C15_ClockPersists ==
    [][ ( \/ (pc = "payload" /\ index > 0)
          \/ pc = "block"
          \/ (pc = "sample" /\ i >= samples)
          \/ (pc = "sample" /\ key \in {"GPSF", "GPSP"})
          \/ (pc = "sample" /\ key = "GPS5" /\ use_gps9) )
        => gpsu' = gpsu ]_vars

\* C16: the numeric columns of the row printed for a Consolidated sample are
\* its elements 0, 1, 2, 3, 4, 8, 7 in this order, under the header columns
\* latitude, longitude, altitude, 2D speed, 3D speed, fix, precision.
C16_ConsolidatedColumnOrder ==
    /\ \A h \in 1..Len(headers) :
         SubSeq(headers[h], Len(headers[h]) - 6, Len(headers[h]))
           = << "GPS (Lat.) [deg]", "GPS (Long.) [deg]", "GPS (Alt.) [m]",
                "GPS (2D speed) [m/s]", "GPS (3D speed) [m/s]", "fix", "precision" >>
    /\ (pc = "sample" /\ key = "GPS9" /\ i > 0
          /\ Passes(min_fix, max_precision,
                    Trunc(tmpbuffer[i][9], Milli), Trunc(tmpbuffer[i][8], Milli)))
       => lastRow.cols = << tmpbuffer[i][1], tmpbuffer[i][2], tmpbuffer[i][3],
                            tmpbuffer[i][4], tmpbuffer[i][5],
                            tmpbuffer[i][9], tmpbuffer[i][8] >>

\* C16 witness: the second sample of a Consolidated block has been printed,
\* its fix (2) in the sixth numeric column and its precision (100.5) in the
\* seventh.
C16_Witness ==
    /\ pc = "sample" /\ key = "GPS9" /\ i = 2
    /\ Len(headers) = 1
    /\ lastRow.argc_index = argc_index /\ prevRow.argc_index = argc_index
    /\ tmpbuffer[2][9] = 2 * Milli /\ tmpbuffer[2][8] = 100500
    /\ lastRow.cols[6] = 2 * Milli /\ lastRow.cols[7] = 100500

\* C17: a clock-sync sample YYMMDDHHMMSS.fff sets the clock to the time of
\* year 2000+YY, 0-based month MM-1, day DD, hour HH, minute MM, second SS,
\* with fractionMillis fff; "210615123456.789" gives 2021-06-15T12:34:56
\* (1623760496 s after the epoch) and 789 ms.
C17_ClockSyncParsing ==
    (pc = "sample" /\ key = "GPSU" /\ i > 0)
    => /\ \A f \in GpsuFields :
            tmpbuffer[1] = FormatGpsu(f)
            => /\ gpsu.time = timegm([tm_year |-> 2000 + f.yy - 1900, tm_mon |-> f.mo - 1,
                                      tm_mday |-> f.dd, tm_hour |-> f.hh,
                                      tm_min |-> f.mi, tm_sec |-> f.ss])
               /\ gpsu.milliseconds = f.fff * Den
       /\ tmpbuffer[1] = << 50, 49, 48, 54, 49, 53, 49, 50, 51, 52, 53, 54, 46, 55, 56, 57 >>
            => gpsu = [time |-> 1623760496, milliseconds |-> 789 * Den]

\* C17 witness: the sample "210615123456.789" has been parsed.
C17_Witness ==
    /\ pc = "sample" /\ key = "GPSU" /\ i = 1
    /\ tmpbuffer[1] = << 50, 49, 48, 54, 49, 53, 49, 50, 51, 52, 53, 54, 46, 55, 56, 57 >>
    /\ gpsu.time = 1623760496

\* C18: a block whose scratch buffer cannot be allocated is skipped and
\* nothing else: the clock, the carried fix and precision, the schema
\* generation, the file time base and end time, ret and the error stream are
\* unchanged, main goes on with GPMF_Next (the next block, or the next
\* payload and file), and a run with no other failure returns 0.
C18_AllocFailureSkipsBlock ==
    [][ /\ (pc = "block" /\ pc' # "sample")
            => /\ UNCHANGED << gpsu, fix, precision, use_gps9, file_start,
                               file_finish, ret, status, stderr, outVars >>
               /\ pc' \in {"block", "payload"}
               /\ (pc' = "payload" => index' = index + 1)
        /\ (pc' = "exit" => status' = 0) ]_vars

\* C18 witness: the allocation for the first block of a payload failed and
\* the second block, a Legacy position block, has been processed and printed.
C18_Witness ==
    /\ pc = "sample" /\ key = "GPS5" /\ i = samples
    /\ nvisited = 2 /\ index = 0 /\ argc_index = first_file_index
    /\ fix = 0 /\ precision = 0 /\ ~use_gps9
    /\ lastRow.argc_index = argc_index /\ lastRow.time = 0

\* C19 (as claimed): no record is printed from a clock, fix or precision
\* that nothing has set yet: none while the only block visited in the run is
\* a Legacy position block, and none while it is a Consolidated block whose
\* first sample was filtered out.
C19_NoRecordFromUnsetState ==
    /\ (nvisited = 1 /\ key = "GPS5") => lastRow = NoRow
    /\ (nvisited = 1 /\ key = "GPS9" /\ i > 0
          /\ ~Passes(min_fix, max_precision,
                     Trunc(tmpbuffer[1][9], Milli), Trunc(tmpbuffer[1][8], Milli)))
       => lastRow = NoRow

\* C20: when GetPayload returns NULL for a payload of a file, no further
\* payload of the file is visited and nothing is written to either stream,
\* the file time base grows by the end time recorded so far, and main goes
\* on with the next file, or returns 0 after the last one.
C20_NullPayloadEndsFileSilently ==
    [][ (pc = "payload" /\ index < payloads /\ pc' # "block" /\ ret' = GPMF_OK)
        => /\ UNCHANGED << stderr, outVars, reported >>
           /\ file_start' = file_start + file_finish
           /\ mp4handle \notin open_sources'
           /\ IF argc_index + 1 < argc
              THEN pc' = "open" /\ argc_index' = argc_index + 1 /\ status' = status
              ELSE pc' = "exit" /\ status' = 0 ]_vars

\* C20 witness: the only file of a run was cut short by a NULL payload after
\* a payload had been decoded; main has returned 0 with an empty error
\* stream and the time base moved on.
C20_Witness ==
    /\ pc = "exit" /\ status = 0
    /\ argc = first_file_index + 1
    /\ 0 < index /\ index < payloads
    /\ file_start > 0
    /\ stderr = << >>
====
